---- MODULE Spec2Model ----
(***************************************************************************)
(* Asset staging of @aws-cdk/core (lib/asset-staging.ts): the process-wide *)
(* cache of staged assets, the copy path and the bundle path of the        *)
(* AssetStaging constructor, and the file system they act on.              *)
(*                                                                         *)
(* Strings are sequences of tokens (a token is a piece of text that the    *)
(* code never looks inside), so that concatenation is \o and two strings   *)
(* are equal exactly when the code would build equal strings.              *)
(***************************************************************************)
EXTENDS Integers, Sequences, FiniteSets, TLC

\* The number of constructor calls of one behaviour.
MaxCalls == 2

Range(s) == {s[i] : i \in 1..Len(s)}

\* F(v), with v evaluated once.
Bind(v, F(_)) == CHOOSE y \in {F(x) : x \in {v}} : TRUE

(***************************************************************************)
(* JavaScript values as far as the code serialises them: undefined,        *)
(* strings, booleans, arrays and objects (keys in insertion order).        *)
(***************************************************************************)
Undef == [t |-> "undef", s |-> <<>>, keys |-> <<>>, items |-> <<>>]
Str(x) == [t |-> "str", s |-> x, keys |-> <<>>, items |-> <<>>]
Bool(b) == [t |-> "bool", s |-> IF b THEN <<"true">> ELSE <<"false">>, keys |-> <<>>, items |-> <<>>]
Arr(xs) == [t |-> "arr", s |-> <<>>, keys |-> <<>>, items |-> xs]
Obj(ks, vs) == [t |-> "obj", s |-> <<>>, keys |-> ks, items |-> vs]

\* JavaScript truthiness: undefined, the empty string and false are falsy.
Truthy(v) ==
    /\ v.t # "undef"
    /\ ~(v.t = "str" /\ v.s = <<>>)
    /\ ~(v.t = "bool" /\ v.s = <<"false">>)

\* a ?? b
Coalesce(a, b) == IF a.t = "undef" THEN b ELSE a

\* object[key]
Get(o, k) ==
    IF \E i \in 1..Len(o.keys) : o.keys[i] = k
    THEN o.items[CHOOSE i \in 1..Len(o.keys) : o.keys[i] = k]
    ELSE Undef

\* The property names of the model in the order Array.prototype.sort gives
\* them (by UTF-16 code units).
KeyOrder ==
    << "assetHashType", "bundling", "command", "containerPath", "customFingerprint",
       "environment", "exclude", "extraHash", "hostPath", "image", "outdir", "skip",
       "sourcePath", "user", "volumes" >>

\* Object.keys(object).sort()
SortedKeys(ks) == SelectSeq(KeyOrder, LAMBDA k : k \in Range(ks))

RECURSIVE sortObject(_)
sortObject(object) ==
    IF object.t # "obj"
    THEN object
    ELSE LET ks == SortedKeys(object.keys)
         IN  Obj(ks, [i \in 1..Len(ks) |-> sortObject(Get(object, ks[i]))])

\* JSON.stringify: a property whose value is undefined is left out of an
\* object, an undefined array element is written null.
RECURSIVE stringify(_)
RECURSIVE stringifyProps(_, _, _)
RECURSIVE stringifyItems(_, _)
stringifyProps(o, i, first) ==
    IF i > Len(o.keys)
    THEN <<>>
    ELSE IF o.items[i].t = "undef"
         THEN stringifyProps(o, i + 1, first)
         ELSE (IF first THEN <<>> ELSE <<",">>)
              \o <<"\"", o.keys[i], "\"", ":">>
              \o stringify(o.items[i])
              \o stringifyProps(o, i + 1, FALSE)

stringifyItems(a, i) ==
    IF i > Len(a.items)
    THEN <<>>
    ELSE (IF i = 1 THEN <<>> ELSE <<",">>)
         \o (IF a.items[i].t = "undef" THEN <<"null">> ELSE stringify(a.items[i]))
         \o stringifyItems(a, i + 1)

stringify(v) ==
    CASE v.t = "str" -> <<"\"">> \o v.s \o <<"\"">>
      [] v.t = "bool" -> v.s
      [] v.t = "arr" -> <<"[">> \o stringifyItems(v, 1) \o <<"]">>
      [] v.t = "obj" -> <<"{">> \o stringifyProps(v, 1, TRUE) \o <<"}">>
      [] OTHER -> <<>>

\* crypto.createHash('sha256').update(data).digest('hex'): collision free.
sha256(data) == <<"sha256(">> \o data \o <<")">>

calculateCacheKey(props) == sha256(stringify(sortObject(props)))

(***************************************************************************)
(* Paths and the file system.  A path is a directory and a file name; the  *)
(* file system maps the paths that exist to what is there: a file, a       *)
(* directory or something else, with its content (for a directory the      *)
(* listing: the empty sequence is an empty directory).  The field made     *)
(* records where an entry comes from and is read by no operation.          *)
(***************************************************************************)
NoPath == [dir |-> "", name |-> <<>>]

\* path.resolve(dir, name)
resolve(dir, name) == [dir |-> dir, name |-> name]

PathStr(p) == <<p.dir, "/">> \o p.name

Extensions == {".txt", ".x"}

\* path.extname(p): the last dot-suffix of the name, '' when there is none.
extname(p) ==
    IF Len(p.name) > 1 /\ p.name[Len(p.name)] \in Extensions
    THEN <<p.name[Len(p.name)]>>
    ELSE <<>>

Entry(type, data, made) == [type |-> type, data |-> data, made |-> made]

existsSync(f, p) == p \in DOMAIN f

removeSync(f, p) == [q \in DOMAIN f \ {p} |-> f[q]]

\* fs.renameSync(from, to), from exists
renameSync(f, from, to) ==
    [q \in (DOMAIN f \ {from}) \cup {to} |-> IF q = to THEN f[from] ELSE f[q]]

\* fs.ensureDirSync(p); fs.chmodSync(p, 0o777): permissions are not modelled.
ensureDirSync(f, p) ==
    IF existsSync(f, p)
    THEN f
    ELSE [q \in DOMAIN f \cup {p} |-> IF q = p THEN Entry("dir", <<>>, "mkdir") ELSE f[q]]

\* fs.copyFileSync(from, to)
copyFileSync(f, from, to) ==
    [q \in DOMAIN f \cup {to} |-> IF q = to THEN Entry("file", f[from].data, "copy") ELSE f[q]]

\* fs.mkdirSync(to); FileSystem.copyDirectory(from, to, options)
copyDirectory(f, from, to) ==
    [q \in DOMAIN f \cup {to} |-> IF q = to THEN Entry("dir", f[from].data, "copy") ELSE f[q]]

\* FileSystem.isEmpty(dir)
isEmpty(f, p) == f[p].data = <<>>

\* FileSystem.fingerprint(path, options): a collision-free hash of what is at
\* the path and of the extra hash of the options.
fingerprint(f, p, options) ==
    <<"fp(", f[p].type, ":">> \o f[p].data \o <<":">> \o stringify(options.extraHash) \o <<")">>

(***************************************************************************)
(* Hash types and the helpers at the end of the file.                      *)
(***************************************************************************)
SOURCE == Str(<<"source">>)
CUSTOM == Str(<<"custom">>)
BUNDLE == Str(<<"bundle">>)
OUTPUT == Str(<<"output">>)

\* renderAssetFilename(assetHash, extension = '')
renderAssetFilename(assetHash, extension) == <<"asset.">> \o assetHash \o extension

Ok(v) == [ok |-> TRUE, val |-> v, err |-> ""]
Throw(v, e) == [ok |-> FALSE, val |-> v, err |-> e]

\* determineHashType(assetHashType, customSourceFingerprint)
determineHashType(assetHashType, customSourceFingerprint) ==
    LET hashType == IF Truthy(customSourceFingerprint)
                    THEN Coalesce(assetHashType, CUSTOM)
                    ELSE Coalesce(assetHashType, SOURCE)
    IN  IF Truthy(customSourceFingerprint) /\ hashType # CUSTOM
        THEN Throw(Undef, "CannotSpecifyHashTypeWithAssetHash")
        ELSE IF hashType = CUSTOM /\ ~Truthy(customSourceFingerprint)
             THEN Throw(Undef, "AssetHashMustBeSpecified")
             ELSE Ok(hashType)

\* Faulty variant: without an output directory the source is hashed.
HashOfOutputOrSource(f, this, outputDir) ==
    IF outputDir = NoPath
    THEN Ok(fingerprint(f, this.sourcePath, this))
    ELSE Ok(fingerprint(f, outputDir, this))

\* calculateHash, lines 430-433: the hash of the output of the transformation
HashOfOutput(f, this, outputDir) ==
    IF outputDir = NoPath
    THEN Throw(<<>>, "CannotUseHashTypeWithoutBundling")
    ELSE Ok(fingerprint(f, outputDir, this))

\* Faulty variant: the fingerprint of the source is digested once more also
\* when there are no bundling options.
calculateHashDigestAlways(f, this, hashType, bundling, outputDir) ==
    IF hashType = CUSTOM \/ hashType = SOURCE
    THEN Ok(sha256(
            (IF this.assetHash.t # "undef"
             THEN this.assetHash.s
             ELSE fingerprint(f, this.sourcePath, this))
            \o (IF Truthy(bundling) THEN stringify(bundling) ELSE <<>>)))
    ELSE HashOfOutput(f, this, outputDir)

\* calculateHash(hashType, bundling?, outputDir?) of the staging `this`
calculateHash(f, this, hashType, bundling, outputDir) ==
    IF hashType = CUSTOM \/ (hashType = SOURCE /\ Truthy(bundling))
    THEN Ok(sha256(
            (IF this.assetHash.t # "undef"
             THEN this.assetHash.s
             ELSE fingerprint(f, this.sourcePath, this))
            \o (IF Truthy(bundling) THEN stringify(bundling) ELSE <<>>)))
    ELSE CASE hashType = SOURCE -> Ok(fingerprint(f, this.sourcePath, this))
           [] hashType \in {BUNDLE, OUTPUT} -> HashOfOutput(f, this, outputDir)
           [] OTHER -> Throw(<<>>, "UnknownAssetHashType")

(***************************************************************************)
(* The methods of AssetStaging.  Each takes the file system f it starts    *)
(* from and returns the file system it leaves, whether it returned or      *)
(* threw, and a record of what it did (read by the properties only).       *)
(***************************************************************************)
EmptyMap == [x \in {} |-> x]
Put(m, k, v) == [x \in DOMAIN m \cup {k} |-> IF x = k THEN v ELSE m[x]]

NoError == [kind |-> "", path |-> NoPath]
Error(kind, path) == [kind |-> kind, path |-> path]

NoPlace ==
    [called |-> FALSE, src |-> NoPath, dst |-> NoPath, style |-> "",
     existed |-> FALSE, step |-> "", before |-> EmptyMap]

\* Faulty variant: the source of a move is discarded also when it is the target.
DiscardSourceOfMove(style, sourcePath, targetPath) == style = "move"

\* stageAsset, line 292: the source of a move is discarded
DiscardSource(style, sourcePath, targetPath) ==
    style = "move" /\ sourcePath # targetPath

\* stageAsset(sourcePath, targetPath, style)
stageAsset(f, sourcePath, targetPath, style) ==
    LET isAlreadyStaged == existsSync(f, targetPath)
        place(step) ==
            [called |-> TRUE, src |-> sourcePath, dst |-> targetPath, style |-> style,
             existed |-> isAlreadyStaged, step |-> step, before |-> f]
    IN  IF isAlreadyStaged
        THEN IF DiscardSource(style, sourcePath, targetPath)
             THEN [fs |-> removeSync(f, sourcePath), err |-> NoError, place |-> place("discard")]
             ELSE [fs |-> f, err |-> NoError, place |-> place("nothing")]
        ELSE IF style = "move"
        THEN [fs |-> renameSync(f, sourcePath, targetPath), err |-> NoError,
              place |-> place("rename")]
        ELSE IF f[sourcePath].type = "file"
        THEN [fs |-> copyFileSync(f, sourcePath, targetPath), err |-> NoError,
              place |-> place("copyFile")]
        ELSE IF f[sourcePath].type = "dir"
        THEN [fs |-> copyDirectory(f, sourcePath, targetPath), err |-> NoError,
              place |-> place("copyDirectory")]
        ELSE [fs |-> f, err |-> Error("UnknownFileType", sourcePath), place |-> place("throw")]

\* Faulty variant: the bundle directory is the temporary one also when the
\* hash is known.
determineBundleDirTemporary(outdir, sourceHash, cacheKey) ==
    resolve(outdir, <<"bundling-temp-">> \o cacheKey)

\* determineBundleDir(outdir, sourceHash?) of a staging with this cache key
determineBundleDir(outdir, sourceHash, cacheKey) ==
    IF sourceHash # <<>>
    THEN resolve(outdir, renderAssetFilename(sourceHash, <<>>))
    ELSE resolve(outdir, <<"bundling-temp-">> \o cacheKey)

\* bundleDir + '-error'
ErrorDir(bundleDir) == resolve(bundleDir.dir, bundleDir.name \o <<"-error">>)

\* What the transformation (options.local.tryBundle, else options.image.run)
\* does in one run: it writes data into the bundle directory and returns or
\* throws.
Outputs == {<<>>, <<"f1">>, <<"f1", "f2">>}
Outcomes == [throws : BOOLEAN, data : Outputs]

NoBundle ==
    [called |-> FALSE, dir |-> NoPath, ran |-> FALSE, threw |-> FALSE, data |-> <<>>,
     stale |-> FALSE]

\* Faulty variant: an existing bundle directory is never reused.
AlreadyBundledNever(f, bundleDir) == FALSE

\* bundle, line 344: the bundle directory is taken to be the finished bundle
AlreadyBundled(f, bundleDir) == existsSync(f, bundleDir)

\* Faulty variant: empty output goes unnoticed.
NoOutputIgnored(f, bundleDir) == FALSE

\* bundle, line 401: the transformation wrote nothing
NoOutput(f, bundleDir) == isEmpty(f, bundleDir)

\* Faulty variant: the bundle directory of a failed run stays where it is.
MoveNothing(f, bundleDir) == f

\* bundle, lines 391-397: the bundle directory is moved out of the way
MoveToErrorDir(f, bundleDir) ==
    LET bundleErrorDir == ErrorDir(bundleDir)
        f1 == IF existsSync(f, bundleErrorDir) THEN removeSync(f, bundleErrorDir) ELSE f
    IN  renameSync(f1, bundleDir, bundleErrorDir)

\* bundle(options, bundleDir), the transformation doing `outcome`
bundle(f, bundleDir, outcome) ==
    LET done(ran) ==
            [called |-> TRUE, dir |-> bundleDir, ran |-> ran,
             threw |-> ran /\ outcome.throws, data |-> IF ran THEN outcome.data ELSE <<>>,
             stale |-> ran /\ outcome.throws /\ existsSync(f, ErrorDir(bundleDir))]
        f1 == ensureDirSync(f, bundleDir)
        f2 == [f1 EXCEPT ![bundleDir] =
                  Entry("dir", outcome.data, IF outcome.throws THEN "failed" ELSE "bundled")]
    IN  IF AlreadyBundled(f, bundleDir)
        THEN [fs |-> f, err |-> NoError, bundle |-> done(FALSE)]
        ELSE IF outcome.throws
        THEN [fs |-> MoveToErrorDir(f2, bundleDir),
              err |-> Error("BundlingFailed", ErrorDir(bundleDir)), bundle |-> done(TRUE)]
        ELSE IF NoOutput(f2, bundleDir)
        THEN [fs |-> f2, err |-> Error("BundlingNoOutput", NoPath), bundle |-> done(TRUE)]
        ELSE [fs |-> f2, err |-> NoError, bundle |-> done(TRUE)]

NoAsset == [assetHash |-> <<>>, stagedPath |-> NoPath]

Staged(f, asset, b, p) ==
    [fs |-> f, err |-> NoError, asset |-> asset, bundle |-> b, place |-> p]
Failed(f, err, b, p) ==
    [fs |-> f, err |-> err, asset |-> NoAsset, bundle |-> b, place |-> p]

\* Faulty variant: the skip flag is ignored.
CopyTargetInOutdir(this, assetHash, skip) ==
    resolve(this.outdir, renderAssetFilename(assetHash, extname(this.sourcePath)))

\* stageByCopying, lines 242-244
CopyTarget(this, assetHash, skip) ==
    IF skip
    THEN this.sourcePath
    ELSE resolve(this.outdir, renderAssetFilename(assetHash, extname(this.sourcePath)))

\* stageByCopying(skip)
stageByCopying(f, this, hashType, skip) ==
    Bind(calculateHash(f, this, hashType, Undef, NoPath), LAMBDA h :
        IF ~h.ok
        THEN Failed(f, Error(h.err, NoPath), NoBundle, NoPlace)
        ELSE
    Bind(CopyTarget(this, h.val, skip), LAMBDA stagedPath :
    Bind(stageAsset(f, this.sourcePath, stagedPath, "copy"), LAMBDA sa :
        IF sa.err # NoError
        THEN Failed(sa.fs, sa.err, NoBundle, sa.place)
        ELSE Staged(sa.fs, [assetHash |-> h.val, stagedPath |-> stagedPath],
                    NoBundle, sa.place))))

\* stageByBundling, line 266: the hash is known before the transformation
HashKnownBeforehand(hashType) == hashType = SOURCE \/ hashType = CUSTOM

\* Faulty variant: the skipped request hashes the source with the bundling
\* options, as the request that is not skipped does.
stageSkippedWithBundling(f, this) ==
    Staged(f, [assetHash |-> calculateHash(f, this, SOURCE, this.bundling, NoPath).val,
               stagedPath |-> this.sourcePath], NoBundle, NoPlace)

\* stageByBundling, lines 256-263: the transformation is skipped
stageSkipped(f, this) ==
    Staged(f, [assetHash |-> calculateHash(f, this, SOURCE, Undef, NoPath).val,
               stagedPath |-> this.sourcePath], NoBundle, NoPlace)

\* stageByBundling, lines 273-278, after bundle returned b
stageBundled(this, hashType, bundling, pre, bundleDir, b) ==
    Bind(IF pre.val # <<>>
         THEN pre
         ELSE calculateHash(b.fs, this, hashType, bundling, bundleDir), LAMBDA post :
        IF ~post.ok
        THEN Failed(b.fs, Error(post.err, NoPath), b.bundle, NoPlace)
        ELSE
    Bind(resolve(this.outdir, renderAssetFilename(post.val, <<>>)), LAMBDA stagedPath :
    Bind(stageAsset(b.fs, bundleDir, stagedPath, "move"), LAMBDA sa :
        IF sa.err # NoError
        THEN Failed(sa.fs, sa.err, b.bundle, sa.place)
        ELSE Staged(sa.fs, [assetHash |-> post.val, stagedPath |-> stagedPath],
                    b.bundle, sa.place))))

\* stageByBundling(bundling, skip)
stageByBundling(f, this, hashType, cacheKey, bundling, skip, outcome) ==
    IF skip
    THEN stageSkipped(f, this)
    ELSE
    Bind(IF HashKnownBeforehand(hashType)
         THEN calculateHash(f, this, hashType, bundling, NoPath)
         ELSE Ok(<<>>), LAMBDA pre :
        IF ~pre.ok
        THEN Failed(f, Error(pre.err, NoPath), NoBundle, NoPlace)
        ELSE
    Bind(determineBundleDir(this.outdir, pre.val, cacheKey), LAMBDA bundleDir :
    Bind(bundle(f, bundleDir, outcome), LAMBDA b :
        IF b.err # NoError
        THEN Failed(b.fs, b.err, b.bundle, NoPlace)
        ELSE stageBundled(this, hashType, bundling, pre, bundleDir, b))))

(***************************************************************************)
(* The cache and the constructor.                                          *)
(***************************************************************************)
\* Faulty variant: the stored value is never found.
CacheHitNever(cache, cacheKey) == FALSE

\* Cache.obtain, lines 39-40: the value stored under the key is returned
CacheHit(cache, cacheKey) == cacheKey \in DOMAIN cache

\* Faulty variant: the cache is set whether calcFn returned or threw.
CacheSetAlways(cache, cacheKey, staged) == Put(cache, cacheKey, staged.asset)

\* Cache.obtain, line 43: what the cache holds after calcFn returned or threw
CacheSet(cache, cacheKey, staged) ==
    IF staged.err = NoError THEN Put(cache, cacheKey, staged.asset) ELSE cache

\* Faulty variant: the output directory and the skip flag are not in the key.
CacheKeyPropsOfSource(props, hashType) ==
    Obj(<<"sourcePath", "bundling", "assetHashType", "customFingerprint",
          "extraHash", "exclude">>,
        <<Str(PathStr(props.sourcePath)), props.bundling, hashType,
          props.assetHash, props.extraHash, props.exclude>>)

\* The props handed to calculateCacheKey, lines 192-201
CacheKeyProps(props, hashType) ==
    Obj(<<"outdir", "sourcePath", "bundling", "assetHashType", "customFingerprint",
          "extraHash", "exclude", "skip">>,
        <<Str(<<props.outdir>>), Str(PathStr(props.sourcePath)), props.bundling, hashType,
          props.assetHash, props.extraHash, props.exclude, Bool(props.skip)>>)

NoKey == <<>>

Returned(f, cache, key, hit, staged) ==
    [fs |-> f, cache |-> cache, key |-> key, hit |-> hit,
     status |-> IF staged.err = NoError THEN "ok" ELSE "error",
     err |-> staged.err, asset |-> staged.asset,
     bundle |-> staged.bundle, place |-> staged.place]

\* The constructor from line 168 on: the hash type is determined
construct(f, cache, props, hashType, outcome) ==
    Bind(calculateCacheKey(CacheKeyProps(props, hashType)), LAMBDA cacheKey :
        IF CacheHit(cache, cacheKey)
        THEN Returned(f, cache, cacheKey, TRUE,
                      Staged(f, cache[cacheKey], NoBundle, NoPlace))
        ELSE
    Bind(IF Truthy(props.bundling)
         THEN stageByBundling(f, props, hashType, cacheKey, props.bundling,
                              props.skip, outcome)
         ELSE stageByCopying(f, props, hashType, props.skip), LAMBDA staged :
        Returned(staged.fs, CacheSet(cache, cacheKey, staged), cacheKey, FALSE, staged)))

\* new AssetStaging(scope, id, props), the transformation doing `outcome` if
\* it is run
constructor(f, cache, props, outcome) ==
    Bind(determineHashType(props.assetHashType, props.assetHash), LAMBDA ht :
        IF props.outdir = ""
        THEN Returned(f, cache, NoKey, FALSE,
                      Failed(f, Error("NoOutputDirectory", NoPath), NoBundle, NoPlace))
        ELSE IF ~ht.ok
        THEN Returned(f, cache, NoKey, FALSE,
                      Failed(f, Error(ht.err, NoPath), NoBundle, NoPlace))
        ELSE construct(f, cache, props, ht.val, outcome))

(***************************************************************************)
(* The requests of the model.                                              *)
(***************************************************************************)
SrcFile == resolve("/src", <<"a", ".txt">>)
SrcDir == resolve("/src", <<"d", ".x">>)
Sources == {SrcFile, SrcDir}

\* The file system before the first request: the sources, nothing staged.
SourceTree ==
    [p \in Sources |->
        IF p = SrcFile
        THEN Entry("file", <<"f1">>, "source")
        ELSE Entry("dir", <<"f1", "f2">>, "source")]

Outdirs == {"/out"}

Bundling1 == Obj(<<"image", "command">>, <<Str(<<"img">>), Arr(<<Str(<<"make">>)>>)>>)
Bundling2 == Obj(<<"command", "image">>, <<Arr(<<Str(<<"make">>)>>), Str(<<"img">>)>>)
Bundlings == {Undef, Bundling1, Bundling2}

HashTypes == {Undef, SOURCE, CUSTOM, BUNDLE, OUTPUT}
Seeds == {Undef, Str(<<"s1">>)}

Requests ==
    [outdir : Outdirs, sourcePath : Sources, bundling : Bundlings,
     assetHashType : HashTypes, assetHash : Seeds, extraHash : {Undef},
     exclude : {Undef}, skip : BOOLEAN]

Fields == {"outdir", "sourcePath", "bundling", "assetHashType", "assetHash", "skip"}

\* The two requests of one behaviour are the same or differ in one field.
Related(a, b) == Cardinality({x \in Fields : a[x] # b[x]}) <= 1

\* The two requests differ in this field and in no other.
DifferOnlyIn(a, b, field) == a[field] # b[field] /\ [a EXCEPT ![field] = b[field]] = b

(***************************************************************************)
(* The state: the file system, the cache of the process, the two requests  *)
(* the process issues, and the last constructor call.  The history:        *)
(* computed counts the computations that returned since the cache was      *)
(* cleared, per cache key; failed holds the requests of which a            *)
(* transformation threw or wrote nothing; staged maps a request whose      *)
(* staging computation returned to what it returned last.                  *)
(*                                                                         *)
(* proc is the state of the processes that stage concurrently into one     *)
(* output directory (SpecConc); the one process of Spec leaves it alone.   *)
(***************************************************************************)
VARIABLES fs, assetCache, reqs, calls, last, computed, failed, staged, proc

vars == <<fs, assetCache, reqs, calls, last, computed, failed, staged, proc>>

Procs == {1, 2}

\* A process before its constructor call: where it is, the locals of the
\* call, how the call ended and the cache of the process.
Idle ==
    [pc |-> "start", key |-> NoKey, pre |-> <<>>, bundleDir |-> NoPath,
     stagedPath |-> NoPath, assetHash |-> <<>>, status |-> "none", err |-> NoError,
     cache |-> EmptyMap]

NoCall ==
    [req |-> 0, key |-> NoKey, hit |-> FALSE, status |-> "none", err |-> NoError,
     asset |-> NoAsset, bundle |-> NoBundle, place |-> NoPlace]

Count(c, k) == IF k \in DOMAIN c THEN c[k] ELSE 0

Init ==
    /\ fs = SourceTree
    /\ assetCache = EmptyMap
    /\ reqs \in {p \in Requests \X Requests : Related(p[1], p[2])}
    /\ calls = 0
    /\ last = NoCall
    /\ computed = EmptyMap
    /\ failed = {}
    /\ staged = EmptyMap
    /\ proc = [p \in Procs |-> Idle]

\* One constructor call with the props reqs[i].
Stage(i) ==
    /\ calls < MaxCalls
    /\ \E outcome \in Outcomes :
        \E r \in {constructor(fs, assetCache, reqs[i], outcome)} :
            /\ fs' = r.fs
            /\ assetCache' = r.cache
            /\ calls' = calls + 1
            /\ last' = [req |-> i, key |-> r.key, hit |-> r.hit, status |-> r.status,
                        err |-> r.err, asset |-> r.asset, bundle |-> r.bundle,
                        place |-> r.place]
            /\ computed' = IF r.status = "ok" /\ ~r.hit
                           THEN Put(computed, r.key, Count(computed, r.key) + 1)
                           ELSE computed
            /\ failed' = IF r.bundle.ran /\ (r.bundle.threw \/ r.bundle.data = <<>>)
                         THEN failed \cup {reqs[i]}
                         ELSE failed
            /\ staged' = IF r.status = "ok" /\ ~r.hit
                         THEN Put(staged, reqs[i], r.asset)
                         ELSE staged
    /\ UNCHANGED <<reqs, proc>>

\* AssetStaging.clearAssetHashCache(); a restarted process also starts from
\* an empty cache and the file system as it was left.
clearAssetHashCache ==
    /\ assetCache # EmptyMap
    /\ assetCache' = EmptyMap
    /\ computed' = EmptyMap
    /\ UNCHANGED <<fs, reqs, calls, last, failed, staged, proc>>

Next ==
    \/ \E i \in 1..2 : Stage(i)
    \/ clearAssetHashCache

Spec == Init /\ [][Next]_vars

(***************************************************************************)
(* The same process with a wider choice of requests: an empty seed, two    *)
(* output directories, and bundling options that hold objects inside an    *)
(* array (volumes) with their keys in one order or the other.              *)
(***************************************************************************)
WideSeeds == Seeds \cup {Str(<<>>)}

WideOutdirs == Outdirs \cup {"/out2"}

Volume1 == Obj(<<"hostPath", "containerPath">>, <<Str(<<"/h">>), Str(<<"/c">>)>>)
Volume2 == Obj(<<"containerPath", "hostPath">>, <<Str(<<"/c">>), Str(<<"/h">>)>>)
BundlingV1 == Obj(<<"image", "volumes">>, <<Str(<<"img">>), Arr(<<Volume1>>)>>)
BundlingV2 == Obj(<<"image", "volumes">>, <<Str(<<"img">>), Arr(<<Volume2>>)>>)
WideBundlings == {Undef, BundlingV1, BundlingV2}

WideRequests ==
    [outdir : WideOutdirs, sourcePath : Sources, bundling : WideBundlings,
     assetHashType : HashTypes, assetHash : WideSeeds, extraHash : {Undef},
     exclude : {Undef}, skip : BOOLEAN]

InitWide ==
    /\ fs = SourceTree
    /\ assetCache = EmptyMap
    /\ reqs \in {p \in WideRequests \X WideRequests : Related(p[1], p[2])}
    /\ calls = 0
    /\ last = NoCall
    /\ computed = EmptyMap
    /\ failed = {}
    /\ staged = EmptyMap
    /\ proc = [p \in Procs |-> Idle]

SpecWide == InitWide /\ [][Next]_vars

\* The same process again, its two requests differing in the output
\* directory alone or in the skip flag alone.
InitOutdirs ==
    /\ fs = SourceTree
    /\ assetCache = EmptyMap
    /\ reqs \in {p \in WideRequests \X WideRequests :
                    \/ DifferOnlyIn(p[1], p[2], "outdir")
                    \/ DifferOnlyIn(p[1], p[2], "skip")}
    /\ calls = 0
    /\ last = NoCall
    /\ computed = EmptyMap
    /\ failed = {}
    /\ staged = EmptyMap
    /\ proc = [p \in Procs |-> Idle]

SpecOutdirs == InitOutdirs /\ [][Next]_vars

(***************************************************************************)
(* Two processes, each with its own cache, issue the same bundling request *)
(* against the same output directory.  A step is one access to the file    *)
(* system by one process, in the order of stageByBundling, bundle and      *)
(* stageAsset; the transformation is one step.                             *)
(***************************************************************************)
ConcRequests == {r \in Requests : Truthy(r.bundling) /\ ~r.skip}

InitConc ==
    /\ fs = SourceTree
    /\ assetCache = EmptyMap
    /\ reqs \in {<<r, r>> : r \in ConcRequests}
    /\ calls = 0
    /\ last = NoCall
    /\ computed = EmptyMap
    /\ failed = {}
    /\ staged = EmptyMap
    /\ proc = [p \in Procs |-> Idle]

OneProcess == <<assetCache, reqs, calls, last, computed, failed, staged>>

\* The process goes on at pc.
Goto(p, pc) == proc' = [proc EXCEPT ![p].pc = pc]

\* The constructor of the process throws.
Throws(p, err) ==
    proc' = [proc EXCEPT ![p].pc = "done", ![p].status = "error", ![p].err = err]

\* The constructor of the process returns; Cache.obtain has set the cache.
Returns(p) ==
    proc' = [proc EXCEPT
                ![p].pc = "done",
                ![p].status = "ok",
                ![p].cache = Put(proc[p].cache, proc[p].key,
                                 [assetHash |-> proc[p].assetHash,
                                  stagedPath |-> proc[p].stagedPath])]

\* fs.renameSync(from, to) fails when from is missing and when to is a
\* directory that is not empty.
RenameError(f, from, to) ==
    IF ~existsSync(f, from)
    THEN "ENOENT"
    ELSE IF existsSync(f, to) /\ f[to].data # <<>>
    THEN "ENOTEMPTY"
    ELSE ""

Longer(a, b) == IF Len(a) >= Len(b) THEN a ELSE b

\* What is in a bundle directory after a run of the transformation wrote
\* to it: other runs may have written there before.
Written(old, outcome) ==
    Entry("dir", Longer(old.data, outcome.data),
          IF ~outcome.throws \/ old.made = "bundled" THEN "bundled" ELSE "failed")

\* Lines 151-203 and 265-270: hash type, cache key, the lookup in the cache,
\* the hash if it is known beforehand, and the bundle directory.
Begin(p) ==
    /\ proc[p].pc = "start"
    /\ \E ht \in {determineHashType(reqs[p].assetHashType, reqs[p].assetHash)} :
        IF ~ht.ok
        THEN Throws(p, Error(ht.err, NoPath))
        ELSE \E key \in {calculateCacheKey(CacheKeyProps(reqs[p], ht.val))} :
             \E pre \in {IF HashKnownBeforehand(ht.val)
                         THEN calculateHash(fs, reqs[p], ht.val, reqs[p].bundling, NoPath).val
                         ELSE <<>>} :
                /\ ~CacheHit(proc[p].cache, key)
                /\ proc' = [proc EXCEPT
                              ![p].pc = "bundle",
                              ![p].key = key,
                              ![p].pre = pre,
                              ![p].bundleDir = determineBundleDir(reqs[p].outdir, pre, key)]
    /\ UNCHANGED <<fs, OneProcess>>

\* bundle, line 344
BundleExists(p) ==
    /\ proc[p].pc = "bundle"
    /\ IF AlreadyBundled(fs, proc[p].bundleDir) THEN Goto(p, "hash") ELSE Goto(p, "mkdir")
    /\ UNCHANGED <<fs, OneProcess>>

\* bundle, lines 346-348
EnsureDir(p) ==
    /\ proc[p].pc = "mkdir"
    /\ fs' = ensureDirSync(fs, proc[p].bundleDir)
    /\ Goto(p, "run")
    /\ UNCHANGED OneProcess

\* bundle, lines 374-386: the transformation.  When the other process has
\* moved the bundle directory away, the run makes it again or throws at once.
Transform(p) ==
    /\ proc[p].pc = "run"
    /\ \E outcome \in Outcomes :
        \/ /\ fs' = [ensureDirSync(fs, proc[p].bundleDir) EXCEPT
                        ![proc[p].bundleDir] = Written(@, outcome)]
           /\ Goto(p, IF outcome.throws THEN "catch" ELSE "empty")
        \/ /\ ~existsSync(fs, proc[p].bundleDir)
           /\ outcome.throws
           /\ fs' = fs
           /\ Goto(p, "catch")
    /\ UNCHANGED OneProcess

\* bundle, line 392
ErrorDirExists(p) ==
    /\ proc[p].pc = "catch"
    /\ IF existsSync(fs, ErrorDir(proc[p].bundleDir))
       THEN Goto(p, "rmerror")
       ELSE Goto(p, "mverror")
    /\ UNCHANGED <<fs, OneProcess>>

\* bundle, line 394
RemoveErrorDir(p) ==
    /\ proc[p].pc = "rmerror"
    /\ fs' = removeSync(fs, ErrorDir(proc[p].bundleDir))
    /\ Goto(p, "mverror")
    /\ UNCHANGED OneProcess

\* bundle, lines 397-398
RenameToErrorDir(p) ==
    /\ proc[p].pc = "mverror"
    /\ \E e \in {RenameError(fs, proc[p].bundleDir, ErrorDir(proc[p].bundleDir))} :
        IF e # ""
        THEN fs' = fs /\ Throws(p, Error(e, proc[p].bundleDir))
        ELSE /\ fs' = renameSync(fs, proc[p].bundleDir, ErrorDir(proc[p].bundleDir))
             /\ Throws(p, Error("BundlingFailed", ErrorDir(proc[p].bundleDir)))
    /\ UNCHANGED OneProcess

\* bundle, lines 401-404
CheckEmpty(p) ==
    /\ proc[p].pc = "empty"
    /\ IF ~existsSync(fs, proc[p].bundleDir)
       THEN Throws(p, Error("ENOENT", proc[p].bundleDir))
       ELSE IF NoOutput(fs, proc[p].bundleDir)
       THEN Throws(p, Error("BundlingNoOutput", NoPath))
       ELSE Goto(p, "hash")
    /\ UNCHANGED <<fs, OneProcess>>

\* stageByBundling, lines 274-275
PostHash(p) ==
    /\ proc[p].pc = "hash"
    /\ IF proc[p].pre = <<>> /\ ~existsSync(fs, proc[p].bundleDir)
       THEN Throws(p, Error("ENOENT", proc[p].bundleDir))
       ELSE \E assetHash \in
                {IF proc[p].pre # <<>>
                 THEN proc[p].pre
                 ELSE calculateHash(fs, reqs[p],
                         determineHashType(reqs[p].assetHashType, reqs[p].assetHash).val,
                         reqs[p].bundling, proc[p].bundleDir).val} :
                proc' = [proc EXCEPT
                            ![p].pc = "stage",
                            ![p].assetHash = assetHash,
                            ![p].stagedPath =
                                resolve(reqs[p].outdir, renderAssetFilename(assetHash, <<>>))]
    /\ UNCHANGED <<fs, OneProcess>>

\* stageAsset, lines 290-296
StageExists(p) ==
    /\ proc[p].pc = "stage"
    /\ IF existsSync(fs, proc[p].stagedPath)
       THEN IF DiscardSource("move", proc[p].bundleDir, proc[p].stagedPath)
            THEN Goto(p, "discard")
            ELSE Returns(p)
       ELSE Goto(p, "move")
    /\ UNCHANGED <<fs, OneProcess>>

\* stageAsset, line 293
Discard(p) ==
    /\ proc[p].pc = "discard"
    /\ fs' = removeSync(fs, proc[p].bundleDir)
    /\ Returns(p)
    /\ UNCHANGED OneProcess

\* stageAsset, line 300
Move(p) ==
    /\ proc[p].pc = "move"
    /\ \E e \in {RenameError(fs, proc[p].bundleDir, proc[p].stagedPath)} :
        IF e # ""
        THEN fs' = fs /\ Throws(p, Error(e, proc[p].bundleDir))
        ELSE fs' = renameSync(fs, proc[p].bundleDir, proc[p].stagedPath) /\ Returns(p)
    /\ UNCHANGED OneProcess

NextConc ==
    \E p \in Procs :
        \/ Begin(p)
        \/ BundleExists(p)
        \/ EnsureDir(p)
        \/ Transform(p)
        \/ ErrorDirExists(p)
        \/ RemoveErrorDir(p)
        \/ RenameToErrorDir(p)
        \/ CheckEmpty(p)
        \/ PostHash(p)
        \/ StageExists(p)
        \/ Discard(p)
        \/ Move(p)

SpecConc == InitConc /\ [][NextConc]_vars

(***************************************************************************)
(* Properties of one process (Spec).                                       *)
(***************************************************************************)
\* This step is a constructor call.
Called == calls' = calls + 1

\* The props of the last constructor call (there has been one).
LastProps == reqs[last.req]

\* The hash type the request resolves to.
Resolved(props) == determineHashType(props.assetHashType, props.assetHash).val

\* The request takes the bundle path and is not skipped.
Bundles(props) == Truthy(props.bundling) /\ ~props.skip

\* The request takes the copy path and is skipped.
CopySkipped(props) == ~Truthy(props.bundling) /\ props.skip

\* The directory holds what a transformation that returned wrote, and it
\* wrote something.
GoodBundle(e) == e.type = "dir" /\ e.made = "bundled" /\ e.data # <<>>

\* C1: between two cache clears the staging computation of a cache key
\* succeeds at most once: the first success is stored, and a later request
\* with that key returns the stored StagedAsset without computing, bundling,
\* placing or changing the file system.
C1_ComputedOncePerKey ==
    [][ /\ \A k \in DOMAIN computed' : computed'[k] <= 1
        /\ (Called /\ last'.status = "ok" /\ ~last'.hit)
              => (last'.key \in DOMAIN assetCache' /\ assetCache'[last'.key] = last'.asset)
        /\ (Called /\ last'.key \in DOMAIN assetCache)
              => /\ last'.hit
                 /\ last'.status = "ok"
                 /\ last'.asset = assetCache[last'.key]
                 /\ ~last'.bundle.called
                 /\ ~last'.place.called
                 /\ fs' = fs
                 /\ assetCache' = assetCache ]_vars

\* C1 witness: the second call of a bundling request is answered from the cache.
C1_Witness ==
    /\ calls = 2
    /\ last.hit
    /\ Bundles(LastProps)
    /\ computed[last.key] = 1

\* C2: a failing request leaves the cache as it was, its key absent, and
\* the next request with the same key computes again.
C2_FailureNotCached ==
    [][ /\ (Called /\ last'.status = "error")
              => (assetCache' = assetCache /\ last'.key \notin DOMAIN assetCache')
        /\ (Called /\ last.status = "error" /\ last.key # NoKey /\ last'.key = last.key)
              => ~last'.hit ]_vars

\* C2 witness: a request whose transformation failed before runs it again.
C2_Witness ==
    /\ last.status = "ok"
    /\ last.bundle.ran
    /\ LastProps \in failed

\* C3: a bundling request whose transformation failed or wrote nothing
\* before only succeeds with the output of a run that returned and wrote
\* something at its staged path.
C3_NoPoisoning ==
    (last.status = "ok" /\ LastProps \in failed /\ Bundles(LastProps))
        => /\ existsSync(fs, last.asset.stagedPath)
           /\ GoodBundle(fs[last.asset.stagedPath])

\* C4: when the transformation throws, the bundle directory with what the
\* run wrote is at <bundleDir>-error, replacing what was there, <bundleDir>
\* is gone, and the error names the -error path.
C4_FailedBundleMovedAside ==
    last.bundle.threw =>
        LET bundleDir == last.bundle.dir
            errorDir == [dir |-> bundleDir.dir, name |-> bundleDir.name \o <<"-error">>]
        IN  /\ errorDir \in DOMAIN fs
            /\ fs[errorDir] = Entry("dir", last.bundle.data, "failed")
            /\ bundleDir \notin DOMAIN fs
            /\ last.status = "error"
            /\ last.err = Error("BundlingFailed", errorDir)

\* C4 witness: a second failing run replaces the -error directory of the first.
C4_Witness ==
    /\ last.bundle.threw
    /\ last.bundle.stale
    /\ last.bundle.data = <<"f1">>

\* C5: a transformation that returns and leaves the bundle directory empty
\* makes the request fail; no StagedAsset is returned or stored.
C5_EmptyOutputFails ==
    (last.bundle.ran /\ ~last.bundle.threw /\ last.bundle.data = <<>>)
        => /\ last.status = "error"
           /\ last.err.kind = "BundlingNoOutput"
           /\ last.asset = NoAsset
           /\ last.key \notin DOMAIN assetCache

\* C5 witness: a transformation returned and wrote nothing.
C5_Witness ==
    /\ last.bundle.ran
    /\ ~last.bundle.threw
    /\ last.bundle.data = <<>>
    /\ last.status = "error"

\* C6: every failure of the transformation, thrown or empty output, leaves
\* a directory at <bundleDir>-error and none at <bundleDir>.
C6_EveryFailureLeavesErrorDir ==
    last.err.kind \in {"BundlingFailed", "BundlingNoOutput"} =>
        LET bundleDir == last.bundle.dir
            errorDir == [dir |-> bundleDir.dir, name |-> bundleDir.name \o <<"-error">>]
        IN  /\ errorDir \in DOMAIN fs
            /\ bundleDir \notin DOMAIN fs

\* The hash type the request asks for is not BUNDLE or OUTPUT.
AsksSourceOrCustom(props) == props.assetHashType \notin {BUNDLE, OUTPUT}

\* A bundling request whose staging computation returned before is issued
\* with its key not in the cache.
Reissued(props, key) ==
    /\ Called
    /\ Bundles(props)
    /\ props \in DOMAIN staged
    /\ key \notin DOMAIN assetCache

\* The reissued request returns what it returned before without running
\* the transformation.
Resumed ==
    /\ last'.status = "ok"
    /\ last'.asset = staged[reqs[last'.req]]
    /\ ~last'.bundle.ran

\* C7 as stated: for every hash type a bundling request that succeeded
\* before and is reissued with an empty cache returns the same StagedAsset
\* without running the transformation.
C7_ResumedForEveryHashType ==
    [][ Reissued(reqs[last'.req], last'.key) => Resumed ]_vars

\* C7 amended: the same for the hash types SOURCE and CUSTOM, whose bundle
\* directory is the staged path, when the earlier success was computed and
\* not answered from the cache.
C7_ResumedWhenHashKnown ==
    [][ (Reissued(reqs[last'.req], last'.key) /\ AsksSourceOrCustom(reqs[last'.req]))
            => Resumed ]_vars

\* C7 witness: the one request of the behaviour succeeded, the cache was
\* cleared, and the second call found the bundle directory.
C7_Witness ==
    /\ calls = 2
    /\ reqs[1] = reqs[2]
    /\ last.status = "ok"
    /\ ~last.hit
    /\ last.bundle.called
    /\ ~last.bundle.ran
    /\ AsksSourceOrCustom(LastProps)
    /\ LastProps \notin failed

\* What stageAsset found at its target is still there.
TargetKept ==
    /\ last.status = "ok"
    /\ last.place.dst \in DOMAIN fs
    /\ fs[last.place.dst] = last.place.before[last.place.dst]

\* C9 as stated: when the target of stageAsset exists, nothing is placed
\* there and the call returns; a move removes its source, a copy leaves
\* the source as it is.
C9_PlacementMoveRemovesSource ==
    (last.place.called /\ last.place.existed) =>
        /\ TargetKept
        /\ last.place.style = "move" => last.place.src \notin DOMAIN fs
        /\ last.place.style = "copy" => fs = last.place.before

\* C9 amended: a move removes its source unless the source is the target
\* itself, and then nothing is removed.
C9_PlacementIdempotent ==
    (last.place.called /\ last.place.existed) =>
        /\ TargetKept
        /\ (last.place.style = "move" /\ last.place.src # last.place.dst)
              => fs = removeSync(last.place.before, last.place.src)
        /\ (last.place.style = "copy" \/ last.place.src = last.place.dst)
              => fs = last.place.before

\* C9 witness: a move found its target, which is not its source.
C9_Witness ==
    /\ last.place.called
    /\ last.place.existed
    /\ last.place.style = "move"
    /\ last.place.src # last.place.dst
    /\ last.place.src \notin DOMAIN fs

\* A skipped request of the copy path returned.
CopySkippedReturned ==
    /\ Called
    /\ CopySkipped(reqs[last'.req])
    /\ last'.status = "ok"

\* C10 as stated: a skipped request of the copy path is staged at its
\* source, writes nothing, and its hash is the fingerprint of the source
\* whatever hash type or seed it gives.
C10_CopySkippedHashIsSourceFingerprint ==
    [][ CopySkippedReturned =>
            LET props == reqs[last'.req]
            IN  /\ last'.asset.stagedPath = props.sourcePath
                /\ fs' = fs
                /\ last'.asset.assetHash = fingerprint(fs, props.sourcePath, props) ]_vars

\* C10 amended: it is staged at its source and writes nothing; its hash is
\* the fingerprint of the source when its hash type resolves to SOURCE and
\* the digest of its seed when it resolves to CUSTOM; asking for BUNDLE or
\* OUTPUT on the copy path fails.
C10_CopySkippedHashOfResolvedType ==
    [][ /\ CopySkippedReturned =>
            LET props == reqs[last'.req]
            IN  /\ last'.asset.stagedPath = props.sourcePath
                /\ fs' = fs
                /\ Resolved(props) = SOURCE
                      => last'.asset.assetHash = fingerprint(fs, props.sourcePath, props)
                /\ Resolved(props) = CUSTOM
                      => last'.asset.assetHash = <<"sha256(">> \o props.assetHash.s \o <<")">>
        /\ (Called /\ CopySkipped(reqs[last'.req])
                /\ reqs[last'.req].assetHashType \in {BUNDLE, OUTPUT})
              => last'.status = "error" ]_vars

\* C10 witness: a skipped request of the copy path with a seed returned.
C10_Witness ==
    /\ last.status = "ok"
    /\ ~last.hit
    /\ CopySkipped(LastProps)
    /\ Resolved(LastProps) = CUSTOM
    /\ last.asset.stagedPath = LastProps.sourcePath

\* The request takes the bundle path and is skipped.
BundleSkipped(props) == Truthy(props.bundling) /\ props.skip

\* C11: a skipped request of the bundle path runs no transformation and
\* leaves the file system as it is; when it returns, it is staged at its
\* source and its hash is the fingerprint of the source, without the
\* bundling options, whatever hash type it asks for.
C11_BundleSkippedIsSourceFingerprint ==
    [][ (Called /\ BundleSkipped(reqs[last'.req])) =>
            LET props == reqs[last'.req]
            IN  /\ ~last'.bundle.called
                /\ ~last'.place.called
                /\ fs' = fs
                /\ last'.status = "ok" =>
                      /\ last'.asset.stagedPath = props.sourcePath
                      /\ last'.asset.assetHash = fingerprint(fs, props.sourcePath, props) ]_vars

\* C11 witness: a skipped request of the bundle path that asks for the hash
\* of the output has been computed.
C11_Witness ==
    /\ last.status = "ok"
    /\ ~last.hit
    /\ BundleSkipped(LastProps)
    /\ LastProps.assetHashType = OUTPUT
    /\ last.asset.stagedPath = LastProps.sourcePath

\* The errors of determineHashType.
HashTypeErrors == {"CannotSpecifyHashTypeWithAssetHash", "AssetHashMustBeSpecified"}

\* C12: a request that gives a seed with a hash type other than CUSTOM, or
\* asks for CUSTOM without a seed, fails with the cache and the file system
\* as they were; any other request is resolved to the hash type it gives,
\* else to CUSTOM when it gives a seed, else to SOURCE, and the resolved
\* hash type is in its cache key.
C12_HashTypeResolved ==
    [][ Called =>
            LET props == reqs[last'.req]
                type == props.assetHashType
                given == props.assetHash # Undef
                resolved == IF type # Undef THEN type ELSE IF given THEN CUSTOM ELSE SOURCE
            IN  IF (given /\ type \notin {Undef, CUSTOM}) \/ (type = CUSTOM /\ ~given)
                THEN /\ last'.status = "error"
                     /\ last'.err.kind \in HashTypeErrors
                     /\ fs' = fs
                     /\ assetCache' = assetCache
                ELSE /\ last'.err.kind \notin HashTypeErrors
                     /\ last'.key = calculateCacheKey(CacheKeyProps(props, resolved)) ]_vars

\* C13: a request without bundling options that asks for the hash type
\* BUNDLE or OUTPUT fails with a configuration error, skipped or not, and
\* leaves the file system and the cache as they were.
C13_OutputHashNeedsBundling ==
    [][ (Called /\ ~Truthy(reqs[last'.req].bundling)
                /\ reqs[last'.req].assetHashType \in {BUNDLE, OUTPUT}) =>
            /\ last'.status = "error"
            /\ last'.err.kind \in HashTypeErrors \cup {"CannotUseHashTypeWithoutBundling"}
            /\ last'.asset = NoAsset
            /\ fs' = fs
            /\ assetCache' = assetCache ]_vars

\* C13 witness: a skipped request for the hash of the output of no
\* transformation has failed.
C13_Witness ==
    /\ last.err.kind = "CannotUseHashTypeWithoutBundling"
    /\ LastProps.skip
    /\ ~Truthy(LastProps.bundling)
    /\ LastProps.assetHashType = OUTPUT

\* The value with the keys of every object in it sorted, also of the
\* objects inside arrays; the elements of an array keep their order.
RECURSIVE Canonical(_)
Canonical(v) ==
    CASE v.t = "obj" ->
            LET ks == SortedKeys(v.keys)
            IN  Obj(ks, [i \in 1..Len(ks) |-> Canonical(Get(v, ks[i]))])
      [] v.t = "arr" -> Arr([i \in 1..Len(v.items) |-> Canonical(v.items[i])])
      [] OTHER -> v

\* What calculateCacheKey is given for the request, its hash type resolved.
KeyProps(props) ==
    CacheKeyProps(props, determineHashType(props.assetHashType, props.assetHash).val)

\* C14: two requests get the same cache key exactly when they are equal up
\* to the order of the keys of their objects, at any depth and also inside
\* arrays.
C14_CacheKeyIgnoresKeyOrder ==
    [][ (Called /\ last.key # NoKey /\ last'.key # NoKey) =>
            (last'.key = last.key
                <=> Canonical(KeyProps(reqs[last'.req])) = Canonical(KeyProps(reqs[last.req])))
      ]_vars

\* The request takes the copy path and is not skipped.
Copies(props) == ~Truthy(props.bundling) /\ ~props.skip

\* C15: a request of the copy path that is not skipped is staged at
\* <outdir>/asset.<assetHash>, followed by the extension of the source when
\* the source is a file and by nothing when it is a directory.
C15_ExtensionOfFilesOnly ==
    (last.status = "ok" /\ Copies(LastProps)) =>
        last.asset.stagedPath =
            resolve(LastProps.outdir,
                    <<"asset.">> \o last.asset.assetHash
                        \o (IF fs[LastProps.sourcePath].type = "file"
                            THEN extname(LastProps.sourcePath)
                            ELSE <<>>))

\* The two requests differ at most in the order of the keys of their
\* bundling options.
SameButKeyOrder(a, b) ==
    /\ [a EXCEPT !.bundling = Undef] = [b EXCEPT !.bundling = Undef]
    /\ Canonical(a.bundling) = Canonical(b.bundling)

\* C16: two bundling requests with hash type SOURCE or CUSTOM that differ
\* only in the order of the keys of their bundling options, each computed,
\* get the same asset hash and the same staged path.
C16_HashIgnoresKeyOrder ==
    \A a, b \in DOMAIN staged :
        (Bundles(a) /\ AsksSourceOrCustom(a) /\ SameButKeyOrder(a, b))
            => staged[a] = staged[b]

\* The seed of the digest: the seed of the request when it gives one, else
\* the fingerprint of its source.
SeedOf(f, props) ==
    IF props.assetHash # Undef
    THEN props.assetHash.s
    ELSE fingerprint(f, props.sourcePath, props)

\* The hash of the table for a request that has been staged.
TableHash(f, props, stagedPath) ==
    CASE BundleSkipped(props) \/ (~Truthy(props.bundling) /\ Resolved(props) = SOURCE) ->
            fingerprint(f, props.sourcePath, props)
      [] ~Truthy(props.bundling) /\ Resolved(props) = CUSTOM ->
            <<"sha256(">> \o SeedOf(f, props) \o <<")">>
      [] Bundles(props) /\ Resolved(props) \in {SOURCE, CUSTOM} ->
            <<"sha256(">> \o SeedOf(f, props) \o stringify(props.bundling) \o <<")">>
      [] OTHER -> fingerprint(f, stagedPath, props)

\* C17: the hash of a computed request is the hash of the table: the
\* fingerprint of the source for SOURCE without bundling, a digest of the
\* seed (of the request, else the fingerprint of the source) and of the
\* bundling options, if any, for CUSTOM and for SOURCE with bundling, and
\* the fingerprint of the output alone for BUNDLE and OUTPUT.
C17_HashFollowsTable ==
    (last.status = "ok" /\ ~last.hit)
        => last.asset.assetHash = TableHash(fs, LastProps, last.asset.stagedPath)

\* C17 witness: a request for the hash of the output has been bundled and
\* staged, after one with the hash of the source.
C17_Witness ==
    /\ calls = 2
    /\ last.status = "ok"
    /\ last.bundle.ran
    /\ LastProps.assetHashType = OUTPUT
    /\ \E r \in DOMAIN staged : Resolved(r) = SOURCE

\* The temporary bundle directory of a cache key in an output directory.
TempDir(outdir, key) == resolve(outdir, <<"bundling-temp-">> \o key)

\* <outdir>/asset.<assetHash>
AssetDir(outdir, assetHash) == resolve(outdir, <<"asset.">> \o assetHash)

\* C18: a bundling request that is computed and returns has bundled in
\* asset.<hash> when its hash type is SOURCE or CUSTOM and in the temporary
\* directory of its cache key otherwise, has hashed the output before
\* placing it when its hash type is BUNDLE or OUTPUT, and has placed the
\* bundle directory by a move.  Whenever a bundling request returns, it is
\* staged at <outdir>/asset.<assetHash>, which exists, and the temporary
\* directory of its cache key does not: it was renamed or discarded.
C18_BundleStepsInOrder ==
    (last.status = "ok" /\ Bundles(LastProps)) =>
        LET props == LastProps
            known == Resolved(props) \in {SOURCE, CUSTOM}
        IN  /\ last.asset.stagedPath = AssetDir(props.outdir, last.asset.assetHash)
            /\ existsSync(fs, last.asset.stagedPath)
            /\ ~existsSync(fs, TempDir(props.outdir, last.key))
            /\ ~last.hit =>
                  /\ last.bundle.called
                  /\ last.bundle.dir = IF known
                                       THEN last.asset.stagedPath
                                       ELSE TempDir(props.outdir, last.key)
                  /\ last.place.called
                  /\ last.place.style = "move"
                  /\ last.place.src = last.bundle.dir
                  /\ last.place.dst = last.asset.stagedPath
                  /\ existsSync(last.place.before, last.bundle.dir)
                  /\ last.bundle.ran =>
                        last.place.before[last.bundle.dir].data = last.bundle.data
                  /\ known => last.place.step = "nothing"
                  /\ ~known =>
                        /\ last.asset.assetHash =
                              fingerprint(last.place.before, last.bundle.dir, props)
                        /\ last.place.step \in {"rename", "discard"}

\* C18 witness: the output of a request for the hash of the output is
\* staged already, and the temporary bundle directory has been discarded.
C18_Witness ==
    /\ last.status = "ok"
    /\ Bundles(LastProps)
    /\ last.bundle.ran
    /\ last.place.step = "discard"
    /\ last.place.src = TempDir(LastProps.outdir, last.key)

\* The request is staged in its output directory, or at its source when it
\* is skipped.
StagedInPlace(f, props, asset) ==
    /\ existsSync(f, asset.stagedPath)
    /\ IF props.skip
       THEN asset.stagedPath = props.sourcePath
       ELSE asset.stagedPath.dir = props.outdir

\* C19: when a request returns after a request that returned and differs
\* from it only in the output directory, or only in the skip flag, the two
\* have different cache keys, so neither is answered with the entry of the
\* other, and each is staged in its own place: in its output directory, or
\* at its source when it is skipped (two skipped requests are both staged
\* at the source).
C19_KeyHasOutdirAndSkip ==
    [][ (/\ Called
         /\ last.status = "ok"
         /\ last'.status = "ok"
         /\ \/ DifferOnlyIn(reqs[last.req], reqs[last'.req], "outdir")
            \/ DifferOnlyIn(reqs[last.req], reqs[last'.req], "skip")) =>
            /\ last'.key # last.key
            /\ ~(reqs[last.req].skip /\ reqs[last'.req].skip)
                  => last'.asset.stagedPath # last.asset.stagedPath
            /\ StagedInPlace(fs', reqs[last.req], last.asset)
            /\ StagedInPlace(fs', reqs[last'.req], last'.asset) ]_vars

\* C19 witness: one request has been staged in both output directories.
C19_Witness ==
    /\ calls = 2
    /\ last.status = "ok"
    /\ DifferOnlyIn(reqs[1], reqs[2], "outdir")
    /\ ~LastProps.skip
    /\ \A i \in 1..2 : /\ reqs[i] \in DOMAIN staged
                       /\ existsSync(fs, staged[reqs[i]].stagedPath)
                       /\ staged[reqs[i]].stagedPath.dir = reqs[i].outdir

\* The paths in an output directory at which a computed request was staged.
StagedPaths ==
    {staged[r].stagedPath : r \in {x \in DOMAIN staged : ~x.skip}}

\* C20: a path in the output directory at which a request was staged stays
\* as it is in every later step of the process; a move whose source is its
\* target leaves the file system as it is; and a transformation that throws
\* ran in a bundle directory that was not there before the call.
C20_StagedPathsKept ==
    [][ /\ \A p \in StagedPaths :
              existsSync(fs, p) => (existsSync(fs', p) /\ fs'[p] = fs[p])
        /\ (Called /\ last'.place.called /\ last'.place.style = "move"
                   /\ last'.place.src = last'.place.dst)
              => fs' = last'.place.before
        /\ (Called /\ last'.bundle.threw) => ~existsSync(fs, last'.bundle.dir) ]_vars

\* C20 witness: after a request has been staged by bundling, a
\* transformation has failed and the staged path is still there.
C20_Witness ==
    /\ calls = 2
    /\ last.bundle.threw
    /\ \E r \in DOMAIN staged :
          /\ Bundles(r)
          /\ existsSync(fs, staged[r].stagedPath)
          /\ GoodBundle(fs[staged[r].stagedPath])

(***************************************************************************)
(* Properties of two processes (SpecConc).                                 *)
(***************************************************************************)
\* C8: when the request of a process returns, its staged path exists and
\* holds what a transformation that returned wrote, whatever the other
\* process has done in between.
C8_ConcurrentStagingSafe ==
    [][ \A p \in Procs :
            (proc[p].pc # "done" /\ proc'[p].pc = "done" /\ proc'[p].status = "ok")
                => /\ existsSync(fs', proc'[p].stagedPath)
                   /\ GoodBundle(fs'[proc'[p].stagedPath]) ]_vars

====
